---------------------------- MODULE Spec2Model ----------------------------
(***************************************************************************)
(* A model of the rendering core of Sudoku-Solver-AR:                      *)
(*   src/src/Painter.cpp          Painter::DrawImage, DrawLine,            *)
(*                                ExtractImage                             *)
(*   src/src/sudoku_solver_ar.cpp DrawLines (the polar line clipper),      *)
(*                                DrawLineClusters, DrawHoughTransform,    *)
(*                                OnKey and the frame loop of main         *)
(*                                                                         *)
(* Numbers.  A C++ float that takes part in the clipper's geometry is a    *)
(* rational <<numerator, denominator>> in lowest terms with a positive     *)
(* denominator.  An angle is the float it is in the program, written in    *)
(* units of 1e-8 radian, so that the comparisons of the source with the    *)
(* double constants M_PI/2, M_PI and 3*M_PI/2 are integer comparisons that *)
(* come out as they do in the program: the float nearest pi,               *)
(* 3.14159274, is GREATER than the double M_PI = 3.14159265.  cosf, sinf   *)
(* and fmodf are tables over the angles of the model (ThetaTable).         *)
(***************************************************************************)
EXTENDS Integers, Sequences, FiniteSets, TLC

VARIABLES
    painter,      \* the Painter and the GL context it draws with
    inp,          \* the arguments of the call being made
    pc,           \* "ready": arguments chosen; "done": the call has returned
    dstImage,     \* the Image ExtractImage writes (puzzleFrame in main)
    toggles,      \* the four static bool flags OnKey flips
    loop          \* the frame loop's state

vars == <<painter, inp, pc, dstImage, toggles, loop>>

---------------------------------------------------------------------------
(* float arithmetic as exact rationals *)

Abs(n) == IF n < 0 THEN -n ELSE n

RECURSIVE GCD(_, _)
GCD(a, b) == IF b = 0 THEN a ELSE GCD(b, a % b)

Rat(n, d) ==
    LET g == GCD(Abs(n), Abs(d))
        s == IF d < 0 THEN -1 ELSE 1
    IN  <<(s * n) \div g, (s * d) \div g>>

F(n) == <<n, 1>>

RNeg(a) == <<-a[1], a[2]>>

RAdd(a, b) ==
    LET g == GCD(a[2], b[2])
    IN  Rat(a[1] * (b[2] \div g) + b[1] * (a[2] \div g), a[2] * (b[2] \div g))

RSub(a, b) == RAdd(a, RNeg(b))

RMul(a, b) ==
    LET g1 == GCD(Abs(a[1]), b[2])
        g2 == GCD(Abs(b[1]), a[2])
    IN  Rat((a[1] \div g1) * (b[1] \div g2), (a[2] \div g2) * (b[2] \div g1))

RDiv(a, b) == RMul(a, Rat(b[2], b[1]))

RLe(a, b) ==
    LET g == GCD(a[2], b[2])
    IN  a[1] * (b[2] \div g) <= b[1] * (a[2] \div g)

RGt(a, b) == ~RLe(a, b)

RAbs(a) == <<Abs(a[1]), a[2]>>


---------------------------------------------------------------------------
(* Image (Image.h): width, height and the pixel buffer, 3 bytes a pixel *)

Image(w, h, d) == [width |-> w, height |-> h, data |-> d]

EmptyImage == Image(0, 0, <<>>)

---------------------------------------------------------------------------
(* The GL context as the Painter uses it.  A GL object is <<kind, name>>;  *)
(* live holds the objects generated and not yet deleted, stray counts the  *)
(* glDelete* calls on a name that is not live, calls logs the              *)
(* glDrawElements calls of the operation in progress and glCalls counts    *)
(* the GL calls it has made.                                               *)

NoProgram == "none"

FreshPainter ==
    [program |-> NoProgram, live |-> {}, stray |-> 0, calls |-> <<>>,
     glCalls |-> 0, viewport |-> "window"]

\* glGenTextures, glGenVertexArrays, glGenBuffers, glGenFramebuffers: GL
\* hands out the least unused name of the kind.
GenName(p, kind) ==
    CHOOSE n \in 1..(Cardinality(p.live) + 1) :
        /\ <<kind, n>> \notin p.live
        /\ \A k \in 1..(n - 1) : <<kind, k>> \in p.live

glGen(p, kind) ==
    [p EXCEPT !.live = @ \cup {<<kind, GenName(p, kind)>>}, !.glCalls = @ + 1]

glDelete(p, obj) ==
    IF obj \in p.live
    THEN [p EXCEPT !.live = @ \ {obj}, !.glCalls = @ + 1]
    ELSE [p EXCEPT !.stray = @ + 1, !.glCalls = @ + 1]

glUseProgram(p, prog) == [p EXCEPT !.program = prog, !.glCalls = @ + 1]

glViewport(p, v) == [p EXCEPT !.viewport = v, !.glCalls = @ + 1]

glDrawElements(p, call) ==
    [p EXCEPT !.calls = Append(@, [call EXCEPT !.program = p.program,
                                                !.bound = p.live]),
              !.glCalls = @ + 1]

\* The start of a top-level operation: the log holds one operation's calls.
ClearLog(p) == [p EXCEPT !.calls = <<>>, !.glCalls = 0]

---------------------------------------------------------------------------
(* Painter::DrawImage, Painter.cpp 28-92 *)

DrawImageBody(p, x, y, width, height, image) ==
    LET p1 == glUseProgram(p, "image")
        texture == <<"texture", GenName(p1, "texture")>>
        p2 == glGen(p1, "texture")
        vao == <<"vao", GenName(p2, "vao")>>
        p3 == glGen(p2, "vao")
        vbo == <<"vbo", GenName(p3, "vbo")>>
        p4 == glGen(p3, "vbo")
        p5 == glDrawElements(p4,
                 [op |-> "DrawImage", program |-> NoProgram, bound |-> {},
                  x |-> x, y |-> y, width |-> width, height |-> height,
                  image |-> image])
        p6 == glDelete(p5, vbo)
        p7 == glDelete(p6, vao)
        p8 == glDelete(p7, texture)
    IN  glUseProgram(p8, NoProgram)

\* DrawImage without the test of lines 30-31.
DrawImageUnguarded(p, x, y, width, height, image) ==
    DrawImageBody(p, x, y, width, height, image)

DrawImage(p, x, y, width, height, image) ==
    IF image.data = <<>>
    THEN p
    ELSE DrawImageBody(p, x, y, width, height, image)

---------------------------------------------------------------------------
(* Painter::DrawLine, Painter.cpp 94-130 *)

DrawLineLeakVbo(p, x1, y1, x2, y2, red, green, blue) ==
    LET p1 == glUseProgram(p, "line")
        vao == <<"vao", GenName(p1, "vao")>>
        p2 == glGen(p1, "vao")
        p3 == glGen(p2, "vbo")
        p4 == glDrawElements(p3,
                 [op |-> "DrawLine", program |-> NoProgram, bound |-> {},
                  x1 |-> x1, y1 |-> y1, x2 |-> x2, y2 |-> y2,
                  red |-> red, green |-> green, blue |-> blue])
        p5 == glDelete(p4, vao)
    IN  glUseProgram(p5, NoProgram)

DrawLine(p, x1, y1, x2, y2, red, green, blue) ==
    LET p1 == glUseProgram(p, "line")
        vao == <<"vao", GenName(p1, "vao")>>
        p2 == glGen(p1, "vao")
        vbo == <<"vbo", GenName(p2, "vbo")>>
        p3 == glGen(p2, "vbo")
        p4 == glDrawElements(p3,
                 [op |-> "DrawLine", program |-> NoProgram, bound |-> {},
                  x1 |-> x1, y1 |-> y1, x2 |-> x2, y2 |-> y2,
                  red |-> red, green |-> green, blue |-> blue])
        p5 == glDelete(p4, vbo)
        p6 == glDelete(p5, vao)
    IN  glUseProgram(p6, NoProgram)

---------------------------------------------------------------------------
(* Painter::ExtractImage, Painter.cpp 132-234.  The result is the painter  *)
(* and dstImage after the call.  pixels is what glReadPixels reads back:   *)
(* the rasterised mesh, which the GL decides.                              *)

\* Lines 145-158: 16 vertices X, Y, Z, U, V on the 4x4 grid over [-1,1]^2.
MeshVertices(srcPoints, srcPointScaleX, srcPointScaleY) ==
    [i \in 1..16 |->
        LET x == (i - 1) % 4
            y == (i - 1) \div 4
        IN  <<RAdd(F(-1), RDiv(RMul(F(x), F(2)), F(3))),
              RAdd(F(-1), RDiv(RMul(F(y), F(2)), F(3))),
              F(0),
              RMul(srcPoints[i][1], srcPointScaleX),
              RMul(srcPoints[i][2], srcPointScaleY)>>]

ExtractImageBody(p, srcImage, srcPoints, srcPointScaleX, srcPointScaleY, dstImageWidth, dstImageHeight, pixels) ==
    LET p1 == glUseProgram(p, "image")
        vertices == MeshVertices(srcPoints, srcPointScaleX, srcPointScaleY)
        outputTexture == <<"texture", GenName(p1, "texture")>>
        p2 == glGen(p1, "texture")
        inputTexture == <<"texture", GenName(p2, "texture")>>
        p3 == glGen(p2, "texture")
        fbo == <<"fbo", GenName(p3, "fbo")>>
        p4 == glGen(p3, "fbo")
        vao == <<"vao", GenName(p4, "vao")>>
        p5 == glGen(p4, "vao")
        vbo == <<"vbo", GenName(p5, "vbo")>>
        p6 == glGen(p5, "vbo")
        p7 == glViewport(p6, <<dstImageWidth, dstImageHeight>>)
        p8 == glDrawElements(p7,
                 [op |-> "ExtractImage", program |-> NoProgram, bound |-> {},
                  vertices |-> vertices, srcImage |-> srcImage,
                  target |-> outputTexture])
        \* lines 221-224: dstImage takes the size asked for and the pixels read back
        out == Image(dstImageWidth, dstImageHeight, pixels)
        p9 == glDelete(p8, vbo)
        p10 == glDelete(p9, vao)
        p11 == glDelete(p10, fbo)
        p12 == glDelete(p11, inputTexture)
        p13 == glDelete(p12, outputTexture)
    IN  [painter |-> glUseProgram(p13, NoProgram), dstImage |-> out]

\* ExtractImage with the point count tested by "< 16" instead of "!= 16".
ExtractImageAtLeast16(p, dst, srcImage, srcPoints, srcPointScaleX, srcPointScaleY, dstImageWidth, dstImageHeight, pixels) ==
    IF srcImage.data = <<>> THEN [painter |-> p, dstImage |-> dst]
    ELSE IF Len(srcPoints) < 16 THEN [painter |-> p, dstImage |-> dst]
    ELSE ExtractImageBody(p, srcImage, srcPoints, srcPointScaleX, srcPointScaleY,
                          dstImageWidth, dstImageHeight, pixels)

ExtractImage(p, dst, srcImage, srcPoints, srcPointScaleX, srcPointScaleY, dstImageWidth, dstImageHeight, pixels) ==
    IF srcImage.data = <<>> THEN [painter |-> p, dstImage |-> dst]
    ELSE IF Len(srcPoints) # 16 THEN [painter |-> p, dstImage |-> dst]
    ELSE ExtractImageBody(p, srcImage, srcPoints, srcPointScaleX, srcPointScaleY,
                          dstImageWidth, dstImageHeight, pixels)

---------------------------------------------------------------------------
(* Angles.  Each entry is one float value of theta, in units of 1e-8       *)
(* radian, with what cosf and sinf return for it and what                  *)
(* fmodf(theta + M_PI, 2.0f * M_PI) returns for it (plusPi).               *)
(*                                                                         *)
(* The angles inside the quadrants are those of the 3-4-5 triangle, whose  *)
(* cosine and sine are rational.  On the axes the entries are the floats   *)
(* the program can hold there:                                             *)
(*   0            cosf = 1, sinf = 0 exactly;                              *)
(*   1.57079637   the float nearest pi/2, above the double M_PI/2;         *)
(*                cosf = -4.37e-8, sinf = 1;                               *)
(*   3.14159274   the float nearest pi, above the double M_PI;             *)
(*                cosf = -1, sinf = -8.74e-8: NOT zero;                    *)
(*   4.71238899   the float nearest 3pi/2, above the double 3*M_PI/2;      *)
(*                cosf = 1.19e-8, sinf = -1;                               *)
(*   1.57079601   fmodf(4.71238899 + M_PI, 2pi), below M_PI/2;             *)
(*                cosf = 3.14e-7, sinf = 1; it is what a line at           *)
(*                4.71238899 with rho < 0 is turned into, and is not       *)
(*                itself among the input angles (InputThetas).             *)
(* No float has cosf = 0, and sinf = 0 only at 0, so the slope m of the    *)
(* source is never 0 and never divided by 0.  The tiny values are written  *)
(* 1/4096, which keeps their sign and keeps every product of the clipper   *)
(* inside TLC's integers.                                                  *)

M_PI == 314159265

ThetaTable ==
    << [theta |-> 0,         cos |-> <<1, 1>>,     sin |-> <<0, 1>>,     plusPi |-> 314159274],
       [theta |-> 64350111,  cos |-> <<4, 5>>,     sin |-> <<3, 5>>,     plusPi |-> 378509376],
       [theta |-> 92729522,  cos |-> <<3, 5>>,     sin |-> <<4, 5>>,     plusPi |-> 406888787],
       [theta |-> 157079601, cos |-> <<1, 4096>>,  sin |-> <<1, 1>>,     plusPi |-> 471238852],
       [theta |-> 157079637, cos |-> <<-1, 4096>>, sin |-> <<1, 1>>,     plusPi |-> 471238899],
       [theta |-> 221429744, cos |-> <<-3, 5>>,    sin |-> <<4, 5>>,     plusPi |-> 535589009],
       [theta |-> 249809154, cos |-> <<-4, 5>>,    sin |-> <<3, 5>>,     plusPi |-> 563968420],
       [theta |-> 314159274, cos |-> <<-1, 1>>,    sin |-> <<-1, 4096>>, plusPi |-> 0],
       [theta |-> 378509376, cos |-> <<-4, 5>>,    sin |-> <<-3, 5>>,    plusPi |-> 64350111],
       [theta |-> 406888787, cos |-> <<-3, 5>>,    sin |-> <<-4, 5>>,    plusPi |-> 92729522],
       [theta |-> 471238899, cos |-> <<1, 4096>>,  sin |-> <<-1, 1>>,    plusPi |-> 157079601],
       [theta |-> 535589009, cos |-> <<3, 5>>,     sin |-> <<-4, 5>>,    plusPi |-> 221429744],
       [theta |-> 563968420, cos |-> <<4, 5>>,     sin |-> <<-3, 5>>,    plusPi |-> 249809154] >>

ThetaEntry(theta) ==
    ThetaTable[CHOOSE i \in 1..Len(ThetaTable) : ThetaTable[i].theta = theta]

cosf(theta) == ThetaEntry(theta).cos

sinf(theta) == ThetaEntry(theta).sin

\* fmodf(theta + M_PI, 2.0f * M_PI)
fmodfPlusPi(theta) == ThetaEntry(theta).plusPi

---------------------------------------------------------------------------
(* DrawLines, sudoku_solver_ar.cpp 48-142.  A Line is [theta, rho], rho an *)
(* integer number of pixels.                                               *)

\* Lines 56-61, with "rho *= -1.0f" left out.
CanonicalKeepRho(line) ==
    IF line.rho < 0
    THEN [theta |-> fmodfPlusPi(line.theta), rho |-> line.rho]
    ELSE line

\* Lines 56-61: rho should be positive.
Canonical(line) ==
    IF line.rho < 0
    THEN [theta |-> fmodfPlusPi(line.theta), rho |-> -line.rho]
    ELSE line

\* Line 111 with M_PI rounded to float, as in "theta <= (float)M_PI".
InLowerLeftFloatPi(theta) == theta >= M_PI \div 2 /\ theta <= fmodfPlusPi(0)

InLowerRight(theta) == theta > 0 /\ theta <= M_PI \div 2

InLowerLeft(theta) == theta >= M_PI \div 2 /\ theta <= M_PI

InTopRight(theta) == theta >= (3 * M_PI) \div 2

Segment(x1, y1, x2, y2) == <<[x1 |-> x1, y1 |-> y1, x2 |-> x2, y2 |-> y2]>>

\* Lines 104-110 with y2 taken from the left edge instead of the right.
ClipLowerRightSwapped(leftVertical, topHorizontal, rightVertical, bottomHorizontal, width, height) ==
    Segment(IF RLe(leftVertical, height) THEN F(0) ELSE bottomHorizontal,
            IF RLe(leftVertical, height) THEN leftVertical ELSE height,
            IF RLe(topHorizontal, width) THEN topHorizontal ELSE width,
            IF RLe(topHorizontal, width) THEN F(0) ELSE leftVertical)

\* Lines 104-110.
ClipLowerRight(leftVertical, topHorizontal, rightVertical, bottomHorizontal, width, height) ==
    Segment(IF RLe(leftVertical, height) THEN F(0) ELSE bottomHorizontal,
            IF RLe(leftVertical, height) THEN leftVertical ELSE height,
            IF RLe(topHorizontal, width) THEN topHorizontal ELSE width,
            IF RLe(topHorizontal, width) THEN F(0) ELSE rightVertical)

\* Lines 111-121.
ClipLowerLeft(leftVertical, topHorizontal, rightVertical, bottomHorizontal, width, height) ==
    IF RGt(leftVertical, height)
    THEN <<>>
    ELSE Segment(F(0),
                 leftVertical,
                 IF RLe(bottomHorizontal, width) THEN bottomHorizontal ELSE width,
                 IF RLe(rightVertical, height) THEN rightVertical ELSE height)

\* Lines 122-131.
ClipTopRight(leftVertical, topHorizontal, rightVertical, bottomHorizontal, width, height) ==
    IF RGt(topHorizontal, width)
    THEN <<>>
    ELSE Segment(topHorizontal,
                 F(0),
                 IF RLe(bottomHorizontal, width) THEN bottomHorizontal ELSE width,
                 IF RLe(bottomHorizontal, width) THEN height ELSE rightVertical)

\* Lines 98-134: the segment to draw, or none.
Clip(theta, leftVertical, topHorizontal, rightVertical, bottomHorizontal, width, height) ==
    IF InLowerRight(theta)
    THEN ClipLowerRight(leftVertical, topHorizontal, rightVertical,
                        bottomHorizontal, width, height)
    ELSE IF InLowerLeft(theta)
    THEN ClipLowerLeft(leftVertical, topHorizontal, rightVertical,
                       bottomHorizontal, width, height)
    ELSE IF InTopRight(theta)
    THEN ClipTopRight(leftVertical, topHorizontal, rightVertical,
                      bottomHorizontal, width, height)
    ELSE <<>>

\* Lines 69-78 with the segment drawn to y + width.
DrawVerticalToWidth(p, x, y, width, height, xPoint, red, green, blue) ==
    DrawLine(p, RAdd(x, xPoint), y, RAdd(x, xPoint), RAdd(y, width),
             red, green, blue)

\* Lines 69-78: the vertical line.
DrawVertical(p, x, y, width, height, xPoint, red, green, blue) ==
    DrawLine(p, RAdd(x, xPoint), y, RAdd(x, xPoint), RAdd(y, height),
             red, green, blue)

\* Lines 52-140: the body of the loop, for one line.
DrawLinesLine(p, x, y, width, height, line, red, green, blue) ==
    LET theta == Canonical(line).theta
        rho == F(Canonical(line).rho)
        cosTheta == cosf(theta)
        sinTheta == sinf(theta)
        xPoint == RMul(cosTheta, rho)
        yPoint == RMul(sinTheta, rho)
        m == RNeg(RDiv(cosf(theta), sinf(theta)))
        b == RMul(RNeg(xPoint), m)
        leftVertical == RAdd(yPoint, b)
        topHorizontal == RDiv(RSub(RNeg(yPoint), b), m)
        rightVertical == RAdd(RAdd(yPoint, b), RMul(width, m))
        bottomHorizontal == RDiv(RSub(RSub(height, yPoint), b), m)
        seg == Clip(theta, leftVertical, topHorizontal, rightVertical,
                    bottomHorizontal, width, height)
    IN  IF sinTheta = F(0)
        THEN DrawVertical(p, x, y, width, height, xPoint, red, green, blue)
        ELSE IF seg = <<>>
        THEN p
        ELSE DrawLine(p, RAdd(x, seg[1].x1), RAdd(y, seg[1].y1),
                      RAdd(x, seg[1].x2), RAdd(y, seg[1].y2), red, green, blue)

RECURSIVE DrawLinesFrom(_, _, _, _, _, _, _, _, _, _)
DrawLinesFrom(p, i, x, y, width, height, lines, red, green, blue) ==
    IF i > Len(lines)
    THEN p
    ELSE DrawLinesFrom(DrawLinesLine(p, x, y, width, height, lines[i], red, green, blue),
                       i + 1, x, y, width, height, lines, red, green, blue)

DrawLines(p, x, y, width, height, lines, red, green, blue) ==
    DrawLinesFrom(p, 1, x, y, width, height, lines, red, green, blue)

---------------------------------------------------------------------------
(* DrawLineClusters, sudoku_solver_ar.cpp 144-164 *)

\* Lines 147-154.
clusterColors ==
    << <<255, 0, 0>>, <<128, 0, 255>>, <<0, 255, 0>>, <<255, 255, 0>>,
       <<0, 255, 255>>, <<128, 255, 255>>, <<255, 0, 255>> >>

\* Line 158 with the index taken modulo one less than the palette size.
ClusterColorShort(index) == clusterColors[(index % (Len(clusterColors) - 1)) + 1]

\* Line 158: index is the 0-based loop counter.
ClusterColor(index) == clusterColors[(index % Len(clusterColors)) + 1]

\* Lines 156-163.  The loop counter is named x and hides the parameter x,
\* so it is the counter that DrawLines gets as its x.
RECURSIVE DrawLineClustersFrom(_, _, _, _, _, _, _)
DrawLineClustersFrom(p, i, x, y, width, height, lineClusters) ==
    IF i >= Len(lineClusters)
    THEN p
    ELSE DrawLineClustersFrom(
             DrawLines(p, F(i), y, width, height, lineClusters[i + 1],
                       ClusterColor(i)[1], ClusterColor(i)[2], ClusterColor(i)[3]),
             i + 1, x, y, width, height, lineClusters)

DrawLineClusters(p, x, y, width, height, lineClusters) ==
    DrawLineClustersFrom(p, 0, x, y, width, height, lineClusters)

---------------------------------------------------------------------------
(* DrawHoughTransform, sudoku_solver_ar.cpp 166-197.  The arithmetic of    *)
(* line 180 and 184 is single precision: a float is q / 2^s with           *)
(* 2^23 <= q < 2^24, and each operation rounds to nearest, ties to even.   *)

RECURSIVE Pow2(_)
Pow2(n) == IF n = 0 THEN 1 ELSE 2 * Pow2(n - 1)

RECURSIVE ILog2(_)
ILog2(n) == IF n < 2 THEN 0 ELSE 1 + ILog2(n \div 2)

RECURSIVE ShiftFor(_, _)
ShiftFor(maximumValue, k) ==
    IF 255 * Pow2(k) >= 128 * maximumValue
    THEN k
    ELSE ShiftFor(maximumValue, k + 1)

\* Line 180: 255.0f / static_cast<float>(maximumValue), maximumValue >= 1,
\* as the float [q, s] = q / 2^s.  The division is done in two steps of
\* at most 2^12 to stay inside TLC's integers.
Multiplier(maximumValue) ==
    LET s == 16 + ShiftFor(maximumValue, 0)
        q1 == (255 * 4096) \div maximumValue
        r1 == (255 * 4096) % maximumValue
        rest == r1 * Pow2(s - 12)
        q == q1 * Pow2(s - 12) + rest \div maximumValue
        rem == rest % maximumValue
        up == 2 * rem > maximumValue \/ (2 * rem = maximumValue /\ q % 2 = 1)
    IN  [q |-> IF up THEN q + 1 ELSE q, s |-> s]

\* The float product count * mult rounded to float and converted to an
\* integer by truncation.  The exact product is I + R / 2^s; rounding can
\* only lift it to I + 1, when it is within half an ulp of it.
TruncProduct(count, mult) ==
    LET A == count * (mult.q \div 4096)
        B == count * (mult.q % 4096)
        T == A + B \div 4096
        I == T \div Pow2(mult.s - 12)
        R == (T % Pow2(mult.s - 12)) * 4096 + (B % 4096)
        k == IF I >= 1 THEN ILog2(I) ELSE -1
        d == mult.s - 23 + k
    IN  IF d >= 1 /\ Pow2(mult.s) - R <= Pow2(d - 1) THEN I + 1 ELSE I

\* Line 184 with the product rounded to the nearest integer.
RescaleValueRounded(count, maximumValue) ==
    (2 * count * 255 + maximumValue) \div (2 * maximumValue)

\* Line 184: static_cast<float>(count) * multiplier, converted to unsigned char.
RescaleValue(count, maximumValue) ==
    TruncProduct(count, Multiplier(maximumValue))

\* Lines 173 and 184: the unsigned short at data[index] (index from 0),
\* low byte first.
CellCount(image, x) == image.data[3 * x + 1] + 256 * image.data[3 * x + 2]

\* Lines 169-175.
RECURSIVE MaximumValueFrom(_, _, _)
MaximumValueFrom(image, x, maximumValue) ==
    IF x >= image.width * image.height
    THEN maximumValue
    ELSE MaximumValueFrom(image, x + 1,
                          IF CellCount(image, x) > maximumValue
                          THEN CellCount(image, x) ELSE maximumValue)

MaximumValue(image) == MaximumValueFrom(image, 0, 0)

\* Lines 177-189.  With maximumValue = 0 the multiplier is +inf, the
\* product 0 * inf is NaN, and its conversion to unsigned char is
\* undefined: nan is the byte the build produces for it.
ModifiedHTF(image, nan) ==
    LET maximumValue == MaximumValue(image)
        value(x) == IF maximumValue = 0
                    THEN nan
                    ELSE RescaleValue(CellCount(image, x), maximumValue)
    IN  [image EXCEPT !.data =
            [i \in 1..Len(image.data) |->
                IF (i - 1) \div 3 < image.width * image.height
                THEN value((i - 1) \div 3)
                ELSE image.data[i]]]

\* Lines 166-197.
DrawHoughTransform(p, windowWidth, windowHeight, houghTransformFrame, scale, nan) ==
    DrawImage(p,
              RSub(windowWidth, RMul(F(houghTransformFrame.width), scale)),
              RSub(windowHeight, RMul(F(houghTransformFrame.height), scale)),
              RMul(F(houghTransformFrame.width), scale),
              RMul(F(houghTransformFrame.height), scale),
              ModifiedHTF(houghTransformFrame, nan))

---------------------------------------------------------------------------
(* Bounds of the model *)

MaxRho == 6          \* |rho| of an input line, in pixels
MaxWidth == 3        \* width of the target rectangle
MaxHeight == 3       \* height of the target rectangle
MaxOffset == 1       \* placement offset x and y
MaxClusters == 8     \* number of line clusters in one call
MaxCount == 7        \* low byte of an accumulator cell
MaxCells == 2        \* cells of an accumulator image
MaxShade == 1        \* byte values of a rendered or captured image
PatchSize == 1       \* pixels per side of an extracted patch (600 in main)
MaxEvents == 1       \* key events delivered by one glfwPollEvents

---------------------------------------------------------------------------
(* The overlay operations, each applied once to arguments chosen at the    *)
(* start: DrawLines, DrawLineClusters, DrawHoughTransform.                 *)

\* The angles a caller passes: every entry of the table but 1.57079601.
InputThetas == {ThetaTable[i].theta : i \in 1..Len(ThetaTable)} \ {157079601}

Lines == [theta : InputThetas, rho : (-MaxRho)..MaxRho]

\* A few lines for the calls with more than one line: a vertical one, one
\* that crosses the rectangle, two that the clipper drops.
PoolLines ==
    { [theta |-> 0, rho |-> 1], [theta |-> 64350111, rho |-> 1],
      [theta |-> 378509376, rho |-> 1], [theta |-> 221429744, rho |-> MaxRho] }

PoolClusters ==
    { <<[theta |-> 64350111, rho |-> 1]>>,
      <<[theta |-> 378509376, rho |-> 1], [theta |-> 0, rho |-> 1],
        [theta |-> 221429744, rho |-> MaxRho]>> }

SeqsUpTo(S, n) == UNION {[1..k -> S] : k \in 0..n}

DrawLinesInputs ==
    [op : {"DrawLines"},
     x : 0..MaxOffset, y : 0..MaxOffset, width : 1..MaxWidth, height : 1..MaxHeight,
     lines : {<<l>> : l \in Lines} \cup SeqsUpTo(PoolLines, 2),
     color : {<<10, 10, 10>>}]

DrawLineClustersInputs ==
    [op : {"DrawLineClusters"},
     x : 0..MaxOffset, y : {MaxOffset}, width : {MaxWidth}, height : {MaxHeight},
     lineClusters : SeqsUpTo(PoolClusters, MaxClusters)]

HoughCells == {<<lo, hi, 200>> : lo \in 0..MaxCount, hi \in 0..1}

RECURSIVE Flatten(_)
Flatten(cells) ==
    IF cells = <<>> THEN <<>> ELSE Head(cells) \o Flatten(Tail(cells))

HoughImages ==
    {EmptyImage} \cup
    {Image(Len(cells), 1, Flatten(cells)) : cells \in SeqsUpTo(HoughCells, MaxCells) \ {<<>>}}

DrawHoughTransformInputs ==
    [op : {"DrawHoughTransform"},
     windowWidth : {8}, windowHeight : {6},
     houghTransformFrame : HoughImages]

NoToggles ==
    [drawLines |-> FALSE, drawLineClusters |-> FALSE,
     drawPossiblePuzzleLineClusters |-> FALSE, drawHoughTransform |-> FALSE]

NoLoop == [pc |-> "none"]

InitOverlay ==
    /\ painter = FreshPainter
    /\ inp \in DrawLinesInputs \cup DrawLineClustersInputs \cup DrawHoughTransformInputs
    /\ pc = "ready"
    /\ dstImage = EmptyImage
    /\ toggles = NoToggles
    /\ loop = NoLoop

CallDrawLines ==
    /\ pc = "ready"
    /\ inp.op = "DrawLines"
    /\ painter' = DrawLines(ClearLog(painter), F(inp.x), F(inp.y), F(inp.width),
                            F(inp.height), inp.lines,
                            inp.color[1], inp.color[2], inp.color[3])
    /\ pc' = "done"
    /\ UNCHANGED <<inp, dstImage, toggles, loop>>

CallDrawLineClusters ==
    /\ pc = "ready"
    /\ inp.op = "DrawLineClusters"
    /\ painter' = DrawLineClusters(ClearLog(painter), F(inp.x), F(inp.y),
                                   F(inp.width), F(inp.height), inp.lineClusters)
    /\ pc' = "done"
    /\ UNCHANGED <<inp, dstImage, toggles, loop>>

\* The byte an undefined float-to-unsigned-char conversion may leave.
NanBytes(image) == IF MaximumValue(image) = 0 /\ image.data # <<>> THEN 0..255 ELSE {0}

CallDrawHoughTransform ==
    /\ pc = "ready"
    /\ inp.op = "DrawHoughTransform"
    /\ \E nan \in NanBytes(inp.houghTransformFrame) :
          painter' = DrawHoughTransform(ClearLog(painter), F(inp.windowWidth),
                                        F(inp.windowHeight), inp.houghTransformFrame,
                                        <<3, 4>>, nan)
    /\ pc' = "done"
    /\ UNCHANGED <<inp, dstImage, toggles, loop>>

NextOverlay == CallDrawLines \/ CallDrawLineClusters \/ CallDrawHoughTransform

SpecOverlay == InitOverlay /\ [][NextOverlay]_vars

---------------------------------------------------------------------------
(* Properties of the clipper.  They are stated on a DrawLines call with    *)
(* one line, where the calls logged are those of that line.  The line as   *)
(* the claims name it, after canonicalization, is (ClaimTheta, ClaimRho),  *)
(* computed here and not taken from DrawLines.                             *)

OneLineDone == pc = "done" /\ inp.op = "DrawLines" /\ Len(inp.lines) = 1

ClaimTheta == IF inp.lines[1].rho < 0
              THEN fmodfPlusPi(inp.lines[1].theta)
              ELSE inp.lines[1].theta

ClaimRho == F(Abs(inp.lines[1].rho))

\* theta in (0, pi/2], [pi/2, pi] or [3pi/2, 2pi)
InDrawnRange(theta) ==
    \/ theta > 0 /\ 2 * theta <= M_PI
    \/ 2 * theta >= M_PI /\ theta <= M_PI
    \/ 2 * theta >= 3 * M_PI

\* theta in [pi, 3pi/2)
InDroppedRange(theta) == theta >= M_PI /\ 2 * theta < 3 * M_PI

\* The endpoints of a logged DrawLine call before the placement offset.
Endpoints(c) ==
    { <<RSub(c.x1, F(inp.x)), RSub(c.y1, F(inp.y))>>,
      <<RSub(c.x2, F(inp.x)), RSub(c.y2, F(inp.y))>> }

InRectangle(pt) ==
    /\ RLe(F(0), pt[1]) /\ RLe(pt[1], F(inp.width))
    /\ RLe(F(0), pt[2]) /\ RLe(pt[2], F(inp.height))

\* |px*cos(theta) + py*sin(theta) - rho| <= 1e-4
OnLine(pt, theta, rho) ==
    RLe(RAbs(RSub(RAdd(RMul(pt[1], cosf(theta)), RMul(pt[2], sinf(theta))), rho)),
        <<1, 10000>>)

\* C2: for rho >= 0 and theta in (0,pi/2], [pi/2,pi] or [3pi/2,2pi), both
\* endpoints of an emitted segment, before the placement offset, lie inside
\* the target rectangle: 0 <= px <= width and 0 <= py <= height.
C2_EndpointsInRectangle ==
    OneLineDone /\ InDrawnRange(ClaimTheta) =>
        \A i \in 1..Len(painter.calls) :
            \A pt \in Endpoints(painter.calls[i]) : InRectangle(pt)

\* C3: for rho >= 0 and theta in (0,pi/2], [pi/2,pi] or [3pi/2,2pi), both
\* endpoints of the emitted segment, before the placement offset, lie on
\* the input line: px*cos(theta) + py*sin(theta) = rho, to within 1e-4.
C3_EndpointsOnLine ==
    OneLineDone /\ InDrawnRange(ClaimTheta) =>
        \A i \in 1..Len(painter.calls) :
            \A pt \in Endpoints(painter.calls[i]) : OnLine(pt, ClaimTheta, ClaimRho)

\* A line of the lower right quadrant cut by the bottom and the right edge.
C3_Witness ==
    /\ OneLineDone
    /\ InDrawnRange(ClaimTheta)
    /\ 2 * ClaimTheta < M_PI
    /\ Len(painter.calls) = 1
    /\ RSub(painter.calls[1].y1, F(inp.y)) = F(inp.height)
    /\ RSub(painter.calls[1].x2, F(inp.x)) = F(inp.width)
    /\ InRectangle(<<RSub(painter.calls[1].x1, F(inp.x)), F(inp.height)>>)

\* C4: a line whose canonicalized theta lies in [pi, 3pi/2), pi included,
\* is never drawn: DrawLines makes no DrawLine call for it.
C4_ThirdQuadrantDropped ==
    OneLineDone /\ InDroppedRange(ClaimTheta) => painter.calls = <<>>

\* The line theta = 0, rho < 0, whose canonical theta is the float pi.
C4_Witness ==
    /\ OneLineDone
    /\ inp.lines[1].theta = 0
    /\ inp.lines[1].rho < 0
    /\ InDroppedRange(ClaimTheta)
    /\ painter.calls = <<>>

\* C5: when sin(theta) = 0 after canonicalization the clipper emits exactly
\* the full-height vertical segment (x+rho, y)-(x+rho, y+height), and
\* nothing else.
C5_VerticalSegment ==
    OneLineDone /\ sinf(ClaimTheta) = F(0) =>
        /\ Len(painter.calls) = 1
        /\ painter.calls[1].op = "DrawLine"
        /\ painter.calls[1].x1 = RAdd(F(inp.x), ClaimRho)
        /\ painter.calls[1].y1 = F(inp.y)
        /\ painter.calls[1].x2 = RAdd(F(inp.x), ClaimRho)
        /\ painter.calls[1].y2 = RAdd(F(inp.y), F(inp.height))

\* theta = 0, rho = R > 0 at placement offset (0,0), width # height.
C5_Witness ==
    /\ OneLineDone
    /\ inp.lines[1].theta = 0
    /\ inp.lines[1].rho > 0
    /\ inp.x = 0 /\ inp.y = 0
    /\ inp.width # inp.height
    /\ Len(painter.calls) = 1
    /\ painter.calls[1].x1 = F(inp.lines[1].rho)
    /\ painter.calls[1].y2 = F(inp.height)

---------------------------------------------------------------------------
(* Properties of DrawLineClusters *)

ClustersDone == pc = "done" /\ inp.op = "DrawLineClusters"

Colors(calls) == [i \in 1..Len(calls) |-> <<calls[i].red, calls[i].green, calls[i].blue>>]

Geometry(calls) ==
    [i \in 1..Len(calls) |-> <<calls[i].x1, calls[i].y1, calls[i].x2, calls[i].y2>>]

\* The calls of a direct DrawLines call for the cluster at position i
\* (from 0), placed at x, in the color palette[i mod 7].
DirectCalls(i, x) ==
    DrawLines(FreshPainter, x, F(inp.y), F(inp.width), F(inp.height),
              inp.lineClusters[i + 1],
              clusterColors[(i % 7) + 1][1], clusterColors[(i % 7) + 1][2],
              clusterColors[(i % 7) + 1][3]).calls

RECURSIVE ExpectedCalls(_)
ExpectedCalls(n) ==
    IF n = 0 THEN <<>> ELSE ExpectedCalls(n - 1) \o DirectCalls(n - 1, F(inp.x))

\* C9: every DrawLine call issued for a line of the cluster at position i
\* has the color palette[i mod 7], whatever the clusters hold and however
\* many lines of earlier clusters the clipper dropped.
C9_ClusterColors ==
    ClustersDone =>
        Colors(painter.calls) = Colors(ExpectedCalls(Len(inp.lineClusters)))

\* Eight clusters: the eighth, at position 7, is drawn in palette[0] after
\* clusters that had lines dropped.
C9_Witness ==
    /\ ClustersDone
    /\ Len(inp.lineClusters) = 8
    /\ Len(inp.lineClusters[1]) = 3
    /\ Len(inp.lineClusters[8]) = 1
    /\ Len(painter.calls) >= 2
    /\ Colors(painter.calls)[Len(painter.calls)] = <<255, 0, 0>>
    /\ Colors(painter.calls)[1] = <<255, 0, 0>>

\* C10: every cluster is clipped and drawn with the placement offset (x,y)
\* and the rectangle DrawLineClusters was called with: the segments are
\* those of a direct DrawLines call with that x, y, width and height.
C10_ClusterPlacement ==
    ClustersDone =>
        Geometry(painter.calls) = Geometry(ExpectedCalls(Len(inp.lineClusters)))

---------------------------------------------------------------------------
(* Properties of DrawHoughTransform *)

HoughDone ==
    /\ pc = "done" /\ inp.op = "DrawHoughTransform"
    /\ MaximumValue(inp.houghTransformFrame) >= 1

NumCells == inp.houghTransformFrame.width * inp.houghTransformFrame.height

Preview == painter.calls[1].image

Channels(x) == <<Preview.data[3 * x + 1], Preview.data[3 * x + 2], Preview.data[3 * x + 3]>>

\* round(count * 255 / M), to nearest
Nearest(count, M) == (2 * count * 255 + M) \div (2 * M)

\* C8 as claimed: with maximum count M >= 1, every cell of the preview
\* handed to DrawImage has all three channels equal to
\* round(count * 255 / M), rounded to nearest.
C8_RoundedToNearest ==
    HoughDone =>
        /\ Len(painter.calls) = 1
        /\ \A x \in 0..(NumCells - 1) :
              LET v == Nearest(CellCount(inp.houghTransformFrame, x),
                               MaximumValue(inp.houghTransformFrame))
              IN  Channels(x) = <<v, v, v>>

\* C8 as amended: every cell of the preview has three equal channels v,
\* the single-precision product count * (255/M) truncated toward zero:
\* count*255/M - 1 - 1e-4 < v <= count*255/M + 1e-4.
C8_Truncated ==
    HoughDone =>
        /\ Len(painter.calls) = 1
        /\ \A x \in 0..(NumCells - 1) :
              LET count == CellCount(inp.houghTransformFrame, x)
                  M == MaximumValue(inp.houghTransformFrame)
                  v == Channels(x)[1]
              IN  /\ Channels(x) = <<v, v, v>>
                  /\ 10000 * v * M <= 10000 * 255 * count + M
                  /\ 10000 * (v + 1) * M > 10000 * 255 * count - M

\* Two cells, counts 7 and 1, maximum 7: the preview holds 254 and 36.
C8_Witness ==
    /\ HoughDone
    /\ NumCells = 2
    /\ CellCount(inp.houghTransformFrame, 0) = 7
    /\ CellCount(inp.houghTransformFrame, 1) = 1
    /\ Channels(0) = <<254, 254, 254>>
    /\ Channels(1) = <<36, 36, 36>>

---------------------------------------------------------------------------
(* The Painter called directly: any sequence of DrawImage, DrawLine and    *)
(* ExtractImage calls with any arguments.  inp holds the arguments of the  *)
(* latest call and, for ExtractImage, dstImage as it was before the call.  *)

\* An image of one shade.
Flat(w, h, shade) == Image(w, h, [i \in 1..(3 * w * h) |-> shade])

\* What glReadPixels may read back for a w x h target.
Renderings(w, h) == {[i \in 1..(3 * w * h) |-> shade] : shade \in 0..MaxShade}

\* n control points, those of a regular grid.
GridPoints(n) == [i \in 1..n |-> <<F(((i - 1) % 4) * 100), F(((i - 1) \div 4) * 100)>>]

PainterImages == {EmptyImage} \cup {Flat(1, 1, shade) : shade \in 0..MaxShade}

InitPainter ==
    /\ painter = FreshPainter
    /\ inp = [op |-> "none"]
    /\ pc = "ready"
    /\ dstImage = EmptyImage
    /\ toggles = NoToggles
    /\ loop = NoLoop

CallDrawImage ==
    \E x \in 0..MaxOffset, y \in 0..MaxOffset, image \in PainterImages :
        /\ painter' = DrawImage(ClearLog(painter), F(x), F(y), F(MaxWidth),
                                F(MaxHeight), image)
        /\ inp' = [op |-> "DrawImage", x |-> x, y |-> y, image |-> image]
        /\ pc' = "done"
        /\ UNCHANGED <<dstImage, toggles, loop>>

CallDrawLine ==
    \E x1 \in 0..MaxOffset, y1 \in 0..MaxOffset, x2 \in 0..MaxWidth :
        /\ painter' = DrawLine(ClearLog(painter), F(x1), F(y1), F(x2), F(MaxHeight),
                               10, 10, 10)
        /\ inp' = [op |-> "DrawLine", x1 |-> x1, y1 |-> y1, x2 |-> x2]
        /\ pc' = "done"
        /\ UNCHANGED <<dstImage, toggles, loop>>

CallExtractImage ==
    \E srcImage \in PainterImages, n \in {0, 15, 16, 17},
       w \in 1..PatchSize, h \in 1..PatchSize :
        \E pixels \in Renderings(w, h) :
            LET r == ExtractImage(ClearLog(painter), dstImage, srcImage, GridPoints(n),
                                  <<1, 800>>, <<1, 600>>, w, h, pixels)
            IN  /\ painter' = r.painter
                /\ dstImage' = r.dstImage
                /\ inp' = [op |-> "ExtractImage", srcImage |-> srcImage,
                           srcPoints |-> GridPoints(n), dstBefore |-> dstImage]
                /\ pc' = "done"
                /\ UNCHANGED <<toggles, loop>>

NextPainter == CallDrawImage \/ CallDrawLine \/ CallExtractImage

SpecPainter == InitPainter /\ [][NextPainter]_vars

\* C1: ExtractImage with an empty srcImage or with other than 16 points
\* makes no GL call and leaves dstImage (width, height, every byte) as it
\* was; DrawImage with an empty image makes no draw call and no GL call
\* that could raise an error.
C1_MalformedInputNoOp ==
    /\ (inp.op = "ExtractImage"
          /\ (inp.srcImage.data = <<>> \/ Len(inp.srcPoints) # 16))
       => /\ painter.glCalls = 0
          /\ painter.calls = <<>>
          /\ dstImage = inp.dstBefore
    /\ (inp.op = "DrawImage" /\ inp.image.data = <<>>)
       => /\ painter.glCalls = 0
          /\ painter.calls = <<>>

\* ExtractImage with 17 points and a source image, on a dstImage that an
\* earlier call filled.
C1_Witness ==
    /\ inp.op = "ExtractImage"
    /\ inp.srcImage.data # <<>>
    /\ Len(inp.srcPoints) = 17
    /\ inp.dstBefore.data # <<>>
    /\ dstImage = inp.dstBefore

\* C6: between calls no GL object generated by the Painter is live, and no
\* call has deleted an object it did not generate.
C6_TransientResources ==
    /\ painter.live = {}
    /\ painter.stray = 0

\* An ExtractImage call that drew with its five objects live and returned.
C6_Witness ==
    /\ inp.op = "ExtractImage"
    /\ Len(painter.calls) = 1
    /\ Cardinality(painter.calls[1].bound) = 5
    /\ painter.live = {}
    /\ painter.stray = 0

---------------------------------------------------------------------------
(* The program: OnKey and the frame loop of main,                          *)
(* sudoku_solver_ar.cpp 211-320.  pc is the loop's position: "poll" at     *)
(* the top of an iteration, "frame" after glfwPollEvents, "terminated"     *)
(* after the loop.  dstImage is puzzleFrame, which main declares outside   *)
(* the loop.  The camera, the image processing and the puzzle finder are   *)
(* not part of the model: what they return is chosen freely in each        *)
(* iteration.                                                              *)

PUZZLE_IMAGE_WIDTH == 600

PUZZLE_IMAGE_HEIGHT == PUZZLE_IMAGE_WIDTH

\* Lines 240 and 249-251: the framebuffer has the size of the window.
windowWidth == 800 + PUZZLE_IMAGE_WIDTH

windowHeight == 600

Keys == {"ESCAPE", "0", "1", "2", "3", "A"}

KeyEvents == [key : Keys, action : {"PRESS", "RELEASE", "REPEAT"}]

\* Lines 211-226.  st is [toggles, close]: the four flags and the window's
\* should-close flag.
OnKey(st, event) ==
    IF event.action # "PRESS" THEN st
    ELSE IF event.key = "ESCAPE" THEN [st EXCEPT !.close = TRUE]
    ELSE IF event.key = "0" THEN [st EXCEPT !.toggles.drawHoughTransform = ~@]
    ELSE IF event.key = "1" THEN [st EXCEPT !.toggles.drawLines = ~@]
    ELSE IF event.key = "2" THEN [st EXCEPT !.toggles.drawLineClusters = ~@]
    ELSE IF event.key = "3"
    THEN [st EXCEPT !.toggles.drawPossiblePuzzleLineClusters = ~@]
    ELSE st

RECURSIVE OnKeys(_, _)
OnKeys(st, events) ==
    IF events = <<>> THEN st ELSE OnKeys(OnKey(st, Head(events)), Tail(events))

\* Lines 199-209.  The result is <<x, y, width, height>>, unsigned.
FitImage(wWidth, wHeight, image) ==
    LET hRatio == RDiv(F(image.width), F(wWidth))
        vRatio == RDiv(F(image.height), F(wHeight))
        scale == RDiv(F(1), IF RLe(hRatio, vRatio) THEN vRatio ELSE hRatio)
        width == RMul(F(image.width), scale)[1] \div RMul(F(image.width), scale)[2]
        height == RMul(F(image.height), scale)[1] \div RMul(F(image.height), scale)[2]
    IN  <<Abs(wWidth - width) \div 2, Abs(wHeight - height) \div 2, width, height>>

\* Camera::CaptureFrameRGB: one RGB frame, 4:3 or square.
Frames == {Flat(4, 3, MaxShade), Flat(2, 2, MaxShade)}

\* BlendAdd(frame, cannyFrame, mergedFrame): the frame with the edges added.
MergedFrame(frame) == Flat(frame.width, frame.height, 255)

\* What PuzzleFinder::Find returns and leaves in its members: found with
\* exactly 16 points, or not found; with or without lines and clusters.
\* The clusters are listed by mean theta, the order in which the sorts of
\* lines 297-301 and 303-307 leave them.
Detections ==
    { [found |-> FALSE, points |-> <<>>, lines |-> <<>>, lineClusters |-> <<>>,
       possiblePuzzleLineClusters |-> <<>>,
       hough |-> Image(1, 1, <<1, 0, 0>>)],
      [found |-> FALSE, points |-> <<>>,
       lines |-> <<[theta |-> 64350111, rho |-> 100]>>,
       lineClusters |-> <<<<[theta |-> 64350111, rho |-> 100]>>>>,
       possiblePuzzleLineClusters |-> <<>>,
       hough |-> Image(1, 1, <<3, 0, 0>>)],
      [found |-> TRUE, points |-> GridPoints(16),
       lines |-> <<[theta |-> 0, rho |-> 100], [theta |-> 221429744, rho |-> 100]>>,
       lineClusters |-> <<<<[theta |-> 0, rho |-> 100]>>,
                          <<[theta |-> 221429744, rho |-> 100]>>>>,
       possiblePuzzleLineClusters |-> <<<<[theta |-> 221429744, rho |-> 100]>>>>,
       hough |-> Image(2, 1, <<7, 0, 0, 1, 0, 0>>)] }

Init ==
    /\ painter = FreshPainter
    /\ inp = [op |-> "none"]
    /\ pc = "poll"
    /\ dstImage = EmptyImage
    /\ toggles = NoToggles
    /\ loop = [close |-> FALSE, everFound |-> FALSE]

\* Lines 264-266: glfwPollEvents runs OnKey for each key event.
PollEvents ==
    /\ pc = "poll"
    /\ ~loop.close
    /\ \E events \in SeqsUpTo(KeyEvents, MaxEvents) :
          LET st == OnKeys([toggles |-> toggles, close |-> loop.close], events)
          IN  /\ toggles' = st.toggles
              /\ loop' = [loop EXCEPT !.close = st.close]
    /\ pc' = "frame"
    /\ UNCHANGED <<painter, inp, dstImage>>

\* Lines 268-315: the rest of the iteration.  The calls are bound one after
\* the other, in the order of the code; puzzleFrame is dstImage.
RunFrame ==
    /\ pc = "frame"
    /\ \E frame \in Frames, det \in Detections :
       \E pixels \in Renderings(PatchSize, PatchSize), nan \in NanBytes(det.hough) :
          LET fit == FitImage(windowWidth - PUZZLE_IMAGE_WIDTH, windowHeight, frame)
              drawImageX == F(fit[1])
              drawImageY == F(fit[2])
              drawImageWidth == F(fit[3])
              drawImageHeight == F(fit[4])
          IN
          \* lines 285-288
          \E e \in {IF det.found
                    THEN ExtractImage(ClearLog(painter), dstImage, frame, det.points,
                                      RDiv(F(1), drawImageWidth),
                                      RDiv(F(1), drawImageHeight),
                                      PatchSize, PatchSize, pixels)
                    ELSE [painter |-> ClearLog(painter), dstImage |-> dstImage]} :
          \* lines 290-291
          \E p2 \in {DrawImage(glViewport(e.painter, "window"), drawImageX, drawImageY,
                               drawImageWidth, drawImageHeight, MergedFrame(frame))} :
          \* line 292
          \E p3 \in {DrawImage(p2, F(800), F(0), F(PUZZLE_IMAGE_WIDTH),
                               F(PUZZLE_IMAGE_HEIGHT), e.dstImage)} :
          \* lines 295-298
          \E p4 \in {IF toggles.drawLines
                     THEN DrawLines(p3, drawImageX, drawImageY, drawImageWidth,
                                    drawImageHeight, det.lines, 10, 10, 10)
                     ELSE p3} :
          \* lines 299-302
          \E p5 \in {IF toggles.drawLineClusters
                     THEN DrawLineClusters(p4, drawImageX, drawImageY, drawImageWidth,
                                           drawImageHeight, det.lineClusters)
                     ELSE p4} :
          \* lines 303-307
          \E p6 \in {IF toggles.drawPossiblePuzzleLineClusters
                     THEN DrawLineClusters(p5, drawImageX, drawImageY, drawImageWidth,
                                           drawImageHeight,
                                           det.possiblePuzzleLineClusters)
                     ELSE p5} :
          \* lines 308-312
          \E p7 \in {IF toggles.drawHoughTransform
                     THEN DrawHoughTransform(p6, F(windowWidth - 600), F(windowHeight),
                                             det.hough, <<3, 4>>, nan)
                     ELSE p6} :
              /\ painter' = p7
              /\ dstImage' = e.dstImage
              /\ inp' = [op |-> "Frame", frame |-> frame, found |-> det.found]
              /\ loop' = [loop EXCEPT !.everFound = @ \/ det.found]
    /\ pc' = "poll"
    /\ UNCHANGED toggles

\* Lines 264 and 318-319: the loop ends on a close request.
Terminate ==
    /\ pc = "poll"
    /\ loop.close
    /\ pc' = "terminated"
    /\ UNCHANGED <<painter, inp, dstImage, toggles, loop>>

Next == PollEvents \/ RunFrame \/ Terminate

Spec == Init /\ [][Next]_vars

\* The patch drawn: the DrawImage call of line 292, at (800, 0).
PatchDrawn ==
    \E i \in 1..Len(painter.calls) :
        /\ painter.calls[i].op = "DrawImage"
        /\ painter.calls[i].x = F(800)
        /\ painter.calls[i].y = F(0)

FrameDone == pc = "poll" /\ inp.op = "Frame"

\* C7 as claimed: the patch is composited in an iteration only if Find
\* returned true in that same iteration.
C7_PatchOnlyWhenFound == FrameDone /\ PatchDrawn => inp.found

\* C7 as amended: the patch is composited in an iteration exactly if
\* puzzleFrame holds a patch, which it does only if Find has returned true
\* in that iteration or an earlier one; what is drawn is puzzleFrame, the
\* patch of the latest extraction.
C7_PatchOnceFound ==
    FrameDone =>
        /\ PatchDrawn <=> dstImage.data # <<>>
        /\ PatchDrawn => loop.everFound
        /\ \A i \in 1..Len(painter.calls) :
              (painter.calls[i].op = "DrawImage" /\ painter.calls[i].x = F(800))
                  => painter.calls[i].image = dstImage

\* An iteration in which Find returned false and the earlier patch is drawn.
C7_Witness ==
    /\ FrameDone
    /\ ~inp.found
    /\ loop.everFound
    /\ PatchDrawn

===========================================================================
